---- MODULE Spec2Model ----
(***************************************************************************)
(* Outreach workflow of AiApply: the contact filter                        *)
(* (FindEmailWorkFlowV2), the acquisition loop (EmailFinderUsingClaude.main)*)
(* and the delivery client (SimpleEmailer.send_bulk_emails).               *)
(*                                                                         *)
(* Python values.  A str is a sequence of one-character strings; the only  *)
(* character the code looks at is "@", every other character is "a".       *)
(* A value that may be None is tagged: PyStr(s) or PyNone.  A dict is a    *)
(* record; a key the dict does not hold is a field the record does not     *)
(* have.  A call returns [exc |-> "", val |-> v] or raises,                *)
(* [exc |-> "TypeError", ...].                                             *)
(***************************************************************************)
EXTENDS Integers, Sequences, FiniteSets, TLC

\* ---------------------------------------------------------------- bounds
MaxLen == 4          \* longest address of the filter's inputs
MaxContacts == 2     \* longest contact list of the filter's inputs

Alphabet == {"a", "@"}

RECURSIVE StringsOfLen(_)
StringsOfLen(n) ==
    IF n = 0 THEN {<<>>}
    ELSE {Append(s, ch) : s \in StringsOfLen(n - 1), ch \in Alphabet}

Strings == UNION {StringsOfLen(n) : n \in 0..MaxLen}

RECURSIVE ListsOfLen(_, _)
ListsOfLen(S, n) ==
    IF n = 0 THEN {<<>>}
    ELSE {Append(l, x) : l \in ListsOfLen(S, n - 1), x \in S}

ListsUpTo(S, n) == UNION {ListsOfLen(S, k) : k \in 0..n}

\* ------------------------------------------------------- python values
PyStr(s) == [tag |-> "str", val |-> s]
PyNone == [tag |-> "None", val |-> <<>>]

\* str.__contains__ for a one-character needle
Contains(s, ch) == \E i \in 1..Len(s) : s[i] = ch

FirstIndex(s, ch) == CHOOSE i \in 1..Len(s) : s[i] = ch /\ \A j \in 1..(i - 1) : s[j] # ch

\* str.split(sep) for a one-character separator: the list of the parts
RECURSIVE Split(_, _)
Split(s, sep) ==
    IF ~Contains(s, sep) THEN <<s>>
    ELSE LET i == FirstIndex(s, sep)
         IN  <<SubSeq(s, 1, i - 1)>> \o Split(SubSeq(s, i + 1, Len(s)), sep)

\* dict.get(key, default)
dict_get(d, key, default) == IF key \in DOMAIN d THEN d[key] ELSE default

\* ------------------------------------------- FindEmailWorkFlowV2.py
\* faulty variants of is_email_okay_to_send: one never looks at the domains,
\* one reads the local part, one reads the text after the last "@"
is_email_okay_to_send_any(email, domains) ==
    IF email.tag # "str" THEN [exc |-> "TypeError", val |-> FALSE]
    ELSE [exc |-> "", val |-> Contains(email.val, "@")]

is_email_okay_to_send_local(email, domains) ==
    IF email.tag # "str" THEN [exc |-> "TypeError", val |-> FALSE]
    ELSE IF ~Contains(email.val, "@") THEN [exc |-> "", val |-> FALSE]
    ELSE [exc |-> "", val |-> Split(email.val, "@")[1] \notin domains]

is_email_okay_to_send_last(email, domains) ==
    IF email.tag # "str" THEN [exc |-> "TypeError", val |-> FALSE]
    ELSE IF ~Contains(email.val, "@") THEN [exc |-> "", val |-> FALSE]
    ELSE LET parts == Split(email.val, "@")
         IN  [exc |-> "", val |-> parts[Len(parts)] \notin domains]

\* `"@" not in email` raises TypeError when email is None
is_email_okay_to_send(email, domains) ==
    IF email.tag # "str" THEN [exc |-> "TypeError", val |-> FALSE]
    ELSE IF ~Contains(email.val, "@") THEN [exc |-> "", val |-> FALSE]
    ELSE [exc |-> "", val |-> Split(email.val, "@")[2] \notin domains]

\* faulty variant of filter_loop: the last admitted contact is not returned
RECURSIVE filter_loop_short(_, _, _)
filter_loop_short(contacts, domains, cleaned_contacts) ==
    IF contacts = <<>>
    THEN [exc |-> "", val |-> SubSeq(cleaned_contacts, 1, Len(cleaned_contacts) - 1)]
    ELSE LET contact == Head(contacts)
             email == dict_get(contact, "email_address", PyStr(<<>>))
             ok == is_email_okay_to_send(email, domains)
         IN  IF ok.exc # "" THEN [exc |-> ok.exc, val |-> <<>>]
             ELSE filter_loop_short(Tail(contacts), domains,
                      IF ok.val THEN Append(cleaned_contacts, contact)
                      ELSE cleaned_contacts)

RECURSIVE filter_loop(_, _, _)
filter_loop(contacts, domains, cleaned_contacts) ==
    IF contacts = <<>> THEN [exc |-> "", val |-> cleaned_contacts]
    ELSE LET contact == Head(contacts)
             email == dict_get(contact, "email_address", PyStr(<<>>))
             ok == is_email_okay_to_send(email, domains)
         IN  IF ok.exc # "" THEN [exc |-> ok.exc, val |-> <<>>]
             ELSE filter_loop(Tail(contacts), domains,
                      IF ok.val THEN Append(cleaned_contacts, contact)
                      ELSE cleaned_contacts)

filter_contacts(contacts, user_emails_sent, user_domains_contacted) ==
    filter_loop(contacts, user_domains_contacted, <<>>)

\* ------------------------------------------------------------ src/models.py
\* faulty variant of get_contacted_domains: an empty domain is not recorded
get_contacted_domains_truthy(emails) ==
    {Split(e, "@")[2] : e \in {x \in emails : Contains(x, "@")}} \ {<<>>}

\* User.get_contacted_domains over the stored addresses
get_contacted_domains(emails) ==
    {Split(e, "@")[2] : e \in {x \in emails : Contains(x, "@")}}

\* models.py: the emails_sent_history column holds the text json.dumps made of
\* a list; any other content (NULL, text that is not JSON) reads as no address
Range(s) == {s[i] : i \in 1..Len(s)}
\* list(a_set): one list of the set's elements.  No reader depends on the
\* order: each makes a set of the list again
list(S) == CHOOSE l \in [1..Cardinality(S) -> S] : Range(l) = S
json_dumps(l) == [tag |-> "json", val |-> l]

get_emails_sent(column) == IF column.tag = "json" THEN column.val ELSE <<>>

\* faulty variant of add_sent_emails: the column is overwritten with the new list
add_sent_emails_overwrite(column, email_list) ==
    json_dumps(list(Range(email_list)))

\* the set of old and new addresses, written back as a list
add_sent_emails(column, email_list) ==
    json_dumps(list(Range(get_emails_sent(column)) \cup Range(email_list)))

\* ------------------------------------------- EmailFinderUsingClaude.py
MaxN == 3            \* largest num_emails of a run
MaxA == 2            \* largest max_attempts of a run
MaxBatch == 2        \* most companies one discovery call returns
MaxEmails == 3       \* longest list handed to send_bulk_emails alone
MaxDelay == 1        \* largest delay_seconds of send_bulk_emails alone
MaxRuns == 2         \* most runs of one user, one after the other

acme == <<"a">>
globex == <<"a", "a">>
Addr(local, domain) == local \o <<"@">> \o domain

\* what the discovery LLM can name
CompanyPool == {[company_name |-> "x", domain |-> acme]}

\* the 'value' of the record enrichment picks for a company: an address at
\* acme, at globex, one with nothing after the "@", one without "@", one with
\* two "@" (globex between them, acme after the second), or None
HunterValues ==
    {PyStr(Addr(<<"a">>, acme)), PyStr(Addr(<<"a">>, globex)),
     PyStr(Addr(<<"a">>, <<>>)), PyStr(<<"a">>),
     PyStr(Addr(Addr(<<"a">>, globex), acme)), PyNone}

\* an address no contact of HunterValues has
foreign == Addr(<<"a", "a">>, acme)

\* createEmailsUsingClaude returns what the LLM answered once it parses and
\* every element holds email_address and email_body (lines 378-400): the
\* contacts annotated, or a list that lost its last element, or one whose
\* first address was rewritten
Annotate(cs) ==
    [i \in 1..Len(cs) |->
        [company_name |-> cs[i].company_name,
         email_address |-> cs[i].email_address, email_body |-> "body"]]

createEmailsUsingClaude(cs) ==
    {Annotate(cs), Annotate(SubSeq(cs, 1, Len(cs) - 1)),
     [Annotate(cs) EXCEPT ![1].email_address = PyStr(foreign)]}

\* SendEmailWorkFlowV2.prepare_emails: one Email per element, in order
prepare_emails(contacts_with_bodies) ==
    [i \in 1..Len(contacts_with_bodies) |->
        dict_get(contacts_with_bodies[i], "email_address", PyStr(<<>>)).val]

DefaultDelay == 2    \* delay_seconds of SendEmailWorkFlowV2.main

\* addresses the user's stored history can hold at the start of a run
HistoryPool == {Addr(<<"a">>, acme)}
\* addresses the legacy Excel file can hold
ExcelPool == {Addr(<<"a", "a">>, globex)}

\* load_legacy_excel_emails: (emails, domains) of the file's rows
load_legacy_excel_emails(rows) ==
    [emails |-> rows, domains |-> {Split(e, "@")[2] : e \in rows}]

\* enrichCompaniesWithHunter: per company, in order, no contact or the one
\* contact built from the record the lookup ranks first
RECURSIVE enrichCompaniesWithHunter(_)
enrichCompaniesWithHunter(cs) ==
    IF cs = <<>> THEN {<<>>}
    ELSE LET rest == enrichCompaniesWithHunter(Tail(cs))
         IN  rest \cup
             {<<[company_name |-> Head(cs).company_name, email_address |-> v]>> \o r :
                  v \in HunterValues, r \in rest}

\* faulty variant of collect_loop: appends every admitted contact
RECURSIVE collect_loop_all(_, _, _, _, _)
collect_loop_all(cleaned, n, all, s_emails, s_domains) ==
    IF cleaned = <<>>
    THEN [all |-> all, emails |-> s_emails, domains |-> s_domains]
    ELSE LET contact == Head(cleaned)
             address == contact.email_address.val
             domain == IF Contains(address, "@") THEN Split(address, "@")[2] ELSE <<>>
         IN  collect_loop_all(Tail(cleaned), n, Append(all, contact),
                              s_emails \cup {address},
                              IF domain # <<>> THEN s_domains \cup {domain} ELSE s_domains)

\* faulty variant of collect_loop: a new contact goes to the front of the list
RECURSIVE collect_loop_front(_, _, _, _, _)
collect_loop_front(cleaned, n, all, s_emails, s_domains) ==
    IF cleaned = <<>> \/ Len(all) >= n
    THEN [all |-> all, emails |-> s_emails, domains |-> s_domains]
    ELSE LET contact == Head(cleaned)
             address == contact.email_address.val
             domain == IF Contains(address, "@") THEN Split(address, "@")[2] ELSE <<>>
         IN  collect_loop_front(Tail(cleaned), n, <<contact>> \o all,
                                s_emails \cup {address},
                                IF domain # <<>> THEN s_domains \cup {domain} ELSE s_domains)

\* faulty variant of collect_loop: the test for enough lets one more through
RECURSIVE collect_loop_late(_, _, _, _, _)
collect_loop_late(cleaned, n, all, s_emails, s_domains) ==
    IF cleaned = <<>> \/ Len(all) > n
    THEN [all |-> all, emails |-> s_emails, domains |-> s_domains]
    ELSE LET contact == Head(cleaned)
             address == contact.email_address.val
             domain == IF Contains(address, "@") THEN Split(address, "@")[2] ELSE <<>>
         IN  collect_loop_late(Tail(cleaned), n, Append(all, contact),
                               s_emails \cup {address},
                               IF domain # <<>> THEN s_domains \cup {domain} ELSE s_domains)

\* lines 522-532: append up to the remaining need, updating the session sets;
\* `if domain:` skips None and the empty string alike
RECURSIVE collect_loop(_, _, _, _, _)
collect_loop(cleaned, n, all, s_emails, s_domains) ==
    IF cleaned = <<>> \/ Len(all) >= n
    THEN [all |-> all, emails |-> s_emails, domains |-> s_domains]
    ELSE LET contact == Head(cleaned)
             address == contact.email_address.val
             domain == IF Contains(address, "@") THEN Split(address, "@")[2] ELSE <<>>
         IN  collect_loop(Tail(cleaned), n, Append(all, contact),
                          s_emails \cup {address},
                          IF domain # <<>> THEN s_domains \cup {domain} ELSE s_domains)

\* ------------------ enrichCompaniesWithHunter, one company (lines 185-281)
MaxRecords == 2      \* most records one domain search returns

\* In the strings of a Hunter record a keyword of the two lists is one
\* element, "HR" is the upper-case spelling of "hr", "s" and "ships" are the
\* endings of 'resumes' and 'internships', "x" is any other text
resume_specific_addresses ==
    <<<<"resume">>, <<"resume", "s">>, <<"careers">>, <<"jobs">>, <<"hiring">>,
      <<"intern">>, <<"intern", "ships">>, <<"talent">>>>
role_priority == <<<<"hr">>, <<"recruiting">>, <<"talent">>, <<"careers">>, <<"people">>>>

lower(s) == [i \in 1..Len(s) |-> IF s[i] = "HR" THEN "hr" ELSE s[i]]
startswith(s, prefix) == Len(prefix) <= Len(s) /\ SubSeq(s, 1, Len(prefix)) = prefix
\* needle in s, for strings
InStr(needle, s) ==
    \E i \in 1..(Len(s) - Len(needle) + 1) : SubSeq(s, i, i + Len(needle) - 1) = needle
\* the truth value of a str or None
Truthy(v) == v.tag = "str" /\ v.val # <<>>

\* lines 222-249.  .lower() of a position or value that is None, and .get of
\* a verification that is None, raise AttributeError
email_score(email_info) ==
    LET p == dict_get(email_info, "position", PyStr(<<>>))
        e == dict_get(email_info, "value", PyStr(<<>>))
        v == dict_get(email_info, "verification", [none |-> TRUE])
    IN  IF p.tag # "str" \/ e.tag # "str" \/ v = PyNone
        THEN [exc |-> "AttributeError", val |-> 0]
        ELSE LET position == lower(p.val)
                 email == lower(e.val)
                 email_local_part ==
                     IF Contains(email, "@") THEN Split(email, "@")[1] ELSE email
             IN  [exc |-> "",
                  val |-> (IF \E k \in 1..Len(resume_specific_addresses) :
                                 \/ email_local_part = resume_specific_addresses[k]
                                 \/ startswith(email_local_part,
                                               resume_specific_addresses[k])
                           THEN 20 ELSE 0)
                        + 10 * Cardinality({k \in 1..Len(role_priority) :
                                   \/ InStr(role_priority[k], position)
                                   \/ InStr(role_priority[k], email)})
                        + (IF /\ Truthy(dict_get(email_info, "first_name", PyNone))
                              /\ Truthy(dict_get(email_info, "last_name", PyNone))
                           THEN 5 ELSE 0)
                        + (IF dict_get(v, "status", PyNone) = PyStr(<<"valid">>)
                           THEN 3 ELSE 0)]

\* sorted(emails_data, key=email_score, reverse=True): descending, and stable
\* (records of equal score keep their order); it raises what email_score raises
RECURSIVE sort_insert(_, _)
sort_insert(x, l) ==
    IF l = <<>> THEN <<x>>
    ELSE IF email_score(Head(l)).val >= email_score(x).val
    THEN <<Head(l)>> \o sort_insert(x, Tail(l))
    ELSE <<x>> \o l

RECURSIVE sort_from(_, _)
sort_from(l, acc) ==
    IF l = <<>> THEN acc ELSE sort_from(Tail(l), sort_insert(Head(l), acc))

sorted(emails_data) ==
    IF \E i \in 1..Len(emails_data) : email_score(emails_data[i]).exc # ""
    THEN [exc |-> "AttributeError", val |-> <<>>]
    ELSE [exc |-> "", val |-> sort_from(emails_data, <<>>)]

\* lines 254-273: the contact built from a record
contact_of(company, email_info) ==
    LET first_name == dict_get(email_info, "first_name", PyNone)
        last_name == dict_get(email_info, "last_name", PyNone)
    IN  [company_name |-> company.company_name,
         contact_name |-> IF Truthy(first_name) /\ Truthy(last_name)
                          THEN PyStr(first_name.val \o <<" ">> \o last_name.val)
                          ELSE IF Truthy(first_name) THEN first_name ELSE PyNone,
         email_address |-> dict_get(email_info, "value", PyNone)]

\* what the domain search answers: the request fails, or a JSON body
RequestFails == [kind |-> "RequestException"]
Body(b) == [kind |-> "json", body |-> b]

\* lines 191-281, the body of the loop over the companies: the contacts one
\* company adds.  Both except branches continue with the next company
enrich_company(company, response) ==
    IF response.kind # "json" THEN <<>>
    ELSE IF "data" \notin DOMAIN response.body THEN <<>>
    ELSE LET emails_data == dict_get(response.body.data, "emails", <<>>)
             sorted_emails == sorted(emails_data)
         IN  IF emails_data = <<>> THEN <<>>
             ELSE IF sorted_emails.exc # "" THEN <<>>
             ELSE <<contact_of(company, sorted_emails.val[1])>>

\* the records a domain search can return
xAtx == <<"x", "@", "x">>
NoStatus == [status |-> PyNone]
Valid == [status |-> PyStr(<<"valid">>)]
Record(value, position, first_name, last_name, verification) ==
    [value |-> value, position |-> position, first_name |-> first_name,
     last_name |-> last_name, verification |-> verification]

RecordPool ==
    {[value |-> PyStr(xAtx)],
     [position |-> PyStr(<<"hr">>)],
     Record(PyStr(<<"jobs", "@", "x">>), PyStr(<<>>), PyNone, PyNone, NoStatus),
     Record(PyStr(<<"resume", "s", "@", "x">>), PyStr(<<>>), PyNone, PyNone, NoStatus),
     Record(PyStr(<<"careers", "@", "x">>), PyStr(<<>>), PyNone, PyNone, NoStatus),
     Record(PyStr(<<"jobs">>), PyStr(<<>>), PyNone, PyNone, NoStatus),
     Record(PyStr(xAtx), PyStr(<<"HR">>), PyStr(<<"x">>), PyStr(<<"x">>), Valid),
     Record(PyStr(xAtx), PyStr(<<"x">>), PyStr(<<"x">>), PyNone, NoStatus),
     Record(PyStr(<<"talent", "@", "people">>),
            PyStr(<<"HR", "recruiting", "careers">>), PyStr(<<"x">>), PyStr(<<"x">>), Valid),
     Record(PyStr(xAtx), PyNone, PyStr(<<"x">>), PyStr(<<"x">>), Valid),
     Record(PyNone, PyStr(<<"hr">>), PyNone, PyNone, NoStatus),
     Record(PyStr(xAtx), PyStr(<<>>), PyNone, PyNone, PyNone)}

ResponsePool ==
    {RequestFails, Body([errors |-> "x"]), Body([data |-> [domain |-> "x"]])} \cup
    {Body([data |-> [emails |-> l]]) : l \in ListsUpTo(RecordPool, MaxRecords)}


VARIABLES
    f_pc, f_contacts, f_domains, f_out,
    s_pc, emails, delay_seconds, s_i, success_count, failure_count, send_log, results,
    pc, api_key, sender_supported, num_emails, max_attempts, caller_domains,
    user_emails_sent, user_domains_contacted,
    all_unique_contacts, session_emails, session_domains, attempt,
    companies, contacts, final_contacts, emails_with_bodies, final_results, raised,
    calls, gained,
    emails_sent_history, progress_queue, task_id,
    h_pc, h_companies, h_i, h_data, h_last, h_contacts,
    d_pc, response_text, d_out,
    g_pc, elapsed, polls, handshake_login_confirmed, dm_log_file,
    user_companies_contacted, num_dms, employer_names, e_i, messages_sent,
    w_pc, w_user, w_emails_sent

filter_vars == <<f_pc, f_contacts, f_domains, f_out>>
send_vars == <<s_pc, emails, delay_seconds, s_i, success_count, failure_count,
               send_log, results>>
main_vars == <<pc, api_key, sender_supported, num_emails, max_attempts, caller_domains,
               user_emails_sent, user_domains_contacted,
               all_unique_contacts, session_emails, session_domains, attempt,
               companies, contacts, final_contacts, emails_with_bodies, final_results,
               raised, calls, gained>>
app_vars == <<emails_sent_history, progress_queue, task_id>>
enrich_vars == <<h_pc, h_companies, h_i, h_data, h_last, h_contacts>>
discover_vars == <<d_pc, response_text, d_out>>
handshake_vars == <<g_pc, elapsed, polls, handshake_login_confirmed, dm_log_file,
                    user_companies_contacted, num_dms, employer_names, e_i,
                    messages_sent>>
overlap_vars == <<w_pc, w_user, w_emails_sent>>
\* the variables of the parts that are modelled alone
side_vars == <<discover_vars, handshake_vars, overlap_vars>>
vars == <<filter_vars, send_vars, main_vars, app_vars, enrich_vars, side_vars>>

\* task ids of the Handshake campaigns, workers of overlapping email runs
Workers == {1, 2}

DiscoverIdle == d_pc = "idle" /\ response_text = <<>> /\ d_out = [exc |-> "", val |-> <<>>]

HandshakeIdle ==
    /\ g_pc = "idle" /\ elapsed = 0 /\ polls = 0
    /\ handshake_login_confirmed = <<>> /\ dm_log_file = {}
    /\ user_companies_contacted = {} /\ num_dms = 1
    /\ employer_names = <<>> /\ e_i = 0
    /\ messages_sent = <<>>

OverlapIdle ==
    /\ w_pc = [w \in Workers |-> "idle"]
    /\ w_user = [w \in Workers |-> json_dumps(<<>>)]
    /\ w_emails_sent = [w \in Workers |-> <<>>]

SideIdle == DiscoverIdle /\ HandshakeIdle /\ OverlapIdle

\* calls is the log of the calls main has made to the clients, gained the
\* number of contacts each finished iteration of the loop has collected
Count(log, what) == Cardinality({i \in 1..Len(log) : log[i] = what})

\* --------------------------------------------------- the filter, called alone
FilterIdle ==
    /\ f_pc = "idle" /\ f_contacts = <<>> /\ f_domains = {}
    /\ f_out = [exc |-> "", val |-> <<>>]

\* a contact dict: with or without the email_address key, the value a str or None
FilterInputs ==
    {[company_name |-> "x"]} \cup
    {[company_name |-> "x", email_address |-> v] :
         v \in {PyStr(s) : s \in Strings} \cup {PyNone}}

DomainPool == {acme, globex, <<>>}

FilterCall ==
    /\ f_pc = "call"
    /\ LET r == filter_contacts(f_contacts, {}, f_domains)
       IN  /\ f_out' = r
           /\ f_pc' = IF r.exc # "" THEN "raised" ELSE "returned"
    /\ UNCHANGED <<f_contacts, f_domains, send_vars, main_vars, app_vars, enrich_vars, side_vars>>

\* ------------------------------ enrichCompaniesWithHunter, called alone
\* h_i companies have been looked up; h_data is the answer for the last of
\* them, h_last the contacts it added
EnrichIdle ==
    /\ h_pc = "idle" /\ h_companies = <<>> /\ h_i = 0
    /\ h_data = RequestFails /\ h_last = <<>> /\ h_contacts = <<>>

\* lines 185-281: one iteration of the loop over the companies
EnrichOne ==
    /\ h_pc = "loop" /\ h_i < Len(h_companies)
    /\ \E response \in ResponsePool :
           /\ h_data' = response
           /\ h_last' = enrich_company(h_companies[h_i + 1], response)
           /\ h_contacts' = h_contacts \o enrich_company(h_companies[h_i + 1], response)
    /\ h_i' = h_i + 1
    /\ UNCHANGED <<h_pc, h_companies, filter_vars, send_vars, main_vars, app_vars, side_vars>>

\* lines 283-284: the contacts are returned
EnrichReturn ==
    /\ h_pc = "loop" /\ h_i = Len(h_companies)
    /\ h_pc' = "returned"
    /\ UNCHANGED <<h_companies, h_i, h_data, h_last, h_contacts,
                   filter_vars, send_vars, main_vars, app_vars, side_vars>>

\* ------------------------------------- SimpleEmailer.send_bulk_emails
SendIdle ==
    /\ s_pc = "idle" /\ emails = <<>> /\ delay_seconds = 0 /\ s_i = 0
    /\ success_count = 0 /\ failure_count = 0 /\ send_log = <<>>
    /\ results = [success |-> 0, failure |-> 0, total |-> 0]

SendEvent(to, ok) == [ev |-> "send", to |-> to, ok |-> ok]
SleepEvent == [ev |-> "sleep", to |-> <<>>, ok |-> TRUE]

\* faulty variant of SendOne: the first failure ends the batch
SendOne_stop ==
    /\ s_pc = "sending" /\ s_i < Len(emails)
    /\ \E ok \in BOOLEAN :
           /\ success_count' = IF ok THEN success_count + 1 ELSE success_count
           /\ failure_count' = IF ok THEN failure_count ELSE failure_count + 1
           /\ send_log' = Append(send_log, SendEvent(emails[s_i + 1], ok))
           /\ s_i' = IF ok THEN s_i + 1 ELSE Len(emails)
    /\ UNCHANGED <<s_pc, emails, delay_seconds, results, filter_vars, main_vars, app_vars, enrich_vars, side_vars>>

\* faulty variant of SendOne: the delay follows every attempt, the last too
SendOne_trailing ==
    /\ s_pc = "sending" /\ s_i < Len(emails)
    /\ \E ok \in BOOLEAN :
           /\ success_count' = IF ok THEN success_count + 1 ELSE success_count
           /\ failure_count' = IF ok THEN failure_count ELSE failure_count + 1
           /\ send_log' =
                  Append(send_log, SendEvent(emails[s_i + 1], ok)) \o
                  (IF delay_seconds > 0 THEN <<SleepEvent>> ELSE <<>>)
    /\ s_i' = s_i + 1
    /\ UNCHANGED <<s_pc, emails, delay_seconds, results, filter_vars, main_vars, app_vars, enrich_vars, side_vars>>

\* lines 222-232, one iteration: send_single_email returns True or False (it
\* catches every exception), the counts, the sleep unless this was the last
SendOne ==
    /\ s_pc = "sending" /\ s_i < Len(emails)
    /\ \E ok \in BOOLEAN :
           /\ success_count' = IF ok THEN success_count + 1 ELSE success_count
           /\ failure_count' = IF ok THEN failure_count ELSE failure_count + 1
           /\ send_log' =
                  Append(send_log, SendEvent(emails[s_i + 1], ok)) \o
                  (IF delay_seconds > 0 /\ s_i < Len(emails) - 1
                   THEN <<SleepEvent>> ELSE <<>>)
    /\ s_i' = s_i + 1
    /\ UNCHANGED <<s_pc, emails, delay_seconds, results, filter_vars, main_vars, app_vars, enrich_vars, side_vars>>

\* lines 234-241: the counts returned
SendFinish ==
    /\ s_pc = "sending" /\ s_i = Len(emails)
    /\ results' = [success |-> success_count, failure |-> failure_count,
                   total |-> Len(emails)]
    /\ s_pc' = "done"
    /\ UNCHANGED <<emails, delay_seconds, s_i, success_count, failure_count,
                   send_log, filter_vars, main_vars, app_vars, enrich_vars, side_vars>>

\* ------------------------------------------- EmailFinderUsingClaude.main
\* main's progress helper (lines 470-473) hands each message to the callback
\* run_workflow passes (app.py 344-348), which puts a dict without a
\* 'complete' key on the queue.  Of a message its type is kept
progress(msg_types) ==
    progress_queue' =
        progress_queue \o [i \in 1..Len(msg_types) |-> [type |-> msg_types[i]]]

inputs == <<api_key, sender_supported, num_emails, max_attempts, caller_domains>>
history == <<user_emails_sent, user_domains_contacted>>
session == <<all_unique_contacts, session_emails, session_domains>>

MainIdle ==
    /\ pc = "idle" /\ api_key = TRUE /\ sender_supported = TRUE
    /\ num_emails = 1 /\ max_attempts = 1
    /\ caller_domains = {} /\ user_emails_sent = {} /\ user_domains_contacted = {}
    /\ all_unique_contacts = <<>> /\ session_emails = {} /\ session_domains = {}
    /\ attempt = 0 /\ companies = <<>> /\ contacts = <<>> /\ final_contacts = <<>>
    /\ emails_with_bodies = <<>>
    /\ final_results = [successful |-> 0, failed |-> 0, total |-> 0, emails_sent |-> <<>>]
    /\ raised = "" /\ calls = <<>> /\ gained = <<>>

\* FindEmailWorkFlowV2.main
FindEmailWorkFlowV2_main(cs, emails_sent, domains_contacted) ==
    filter_contacts(cs, emails_sent, domains_contacted)

\* lines 440-482: the API-key check, the merge of the legacy Excel rows, the
\* session state
MainStart ==
    /\ pc = "start"
    /\ IF ~api_key
       THEN /\ raised' = "ValueError" /\ pc' = "raised"
            /\ UNCHANGED <<history, progress_queue>>
       ELSE \E rows \in SUBSET ExcelPool :
                LET excel == load_legacy_excel_emails(rows)
                IN  /\ user_emails_sent' = user_emails_sent \cup excel.emails
                    /\ user_domains_contacted' = user_domains_contacted \cup excel.domains
                    /\ pc' = "while" /\ UNCHANGED raised
                    /\ progress(<<"in-progress">>)
    /\ UNCHANGED <<emails_sent_history, task_id, enrich_vars, side_vars, filter_vars, send_vars, inputs, session, attempt, companies, contacts,
                   final_contacts, emails_with_bodies, final_results, calls, gained>>

\* faulty variant of WhileTest: the attempt budget is not tested
WhileTest_nobudget ==
    /\ pc = "while"
    /\ IF Len(all_unique_contacts) < num_emails
       THEN /\ attempt' = attempt + 1 /\ pc' = "discover"
            /\ companies' = <<>> /\ contacts' = <<>>
            /\ progress(<<"in-progress">>)
       ELSE pc' = "after_loop" /\ UNCHANGED <<attempt, companies, contacts, progress_queue>>
    /\ UNCHANGED <<emails_sent_history, task_id, enrich_vars, side_vars, filter_vars, send_vars, inputs, history, session, final_contacts,
                   emails_with_bodies, final_results, raised, calls, gained>>

\* lines 485-486: the loop condition and attempt += 1.  An iteration rebinds
\* companies and contacts before it reads them: the values of the previous
\* iteration are dropped as it starts
WhileTest ==
    /\ pc = "while"
    /\ IF Len(all_unique_contacts) < num_emails /\ attempt < max_attempts
       THEN /\ attempt' = attempt + 1 /\ pc' = "discover"
            /\ companies' = <<>> /\ contacts' = <<>>
            /\ progress(<<"in-progress">>)
       ELSE pc' = "after_loop" /\ UNCHANGED <<attempt, companies, contacts, progress_queue>>
    /\ UNCHANGED <<emails_sent_history, task_id, enrich_vars, side_vars, filter_vars, send_vars, inputs, history, session, final_contacts,
                   emails_with_bodies, final_results, raised, calls, gained>>

\* faulty variant of DiscoverReturns: an empty list continues the loop
DiscoverReturns_continue ==
    /\ pc = "discover"
    /\ \E cs \in ListsUpTo(CompanyPool, MaxBatch) :
           /\ companies' = cs
           /\ pc' = IF Len(cs) = 0 THEN "while" ELSE "enrich"
           /\ calls' = Append(calls, IF Len(cs) = 0 THEN "discover_empty" ELSE "discover")
           /\ gained' = IF Len(cs) = 0 THEN Append(gained, 0) ELSE gained
           /\ progress(<<"in-progress", "success">> \o
                       (IF Len(cs) = 0 THEN <<"error">> ELSE <<>>))
    /\ UNCHANGED <<emails_sent_history, task_id, enrich_vars, side_vars, filter_vars, send_vars, inputs, history, session, attempt, contacts,
                   final_contacts, emails_with_bodies, final_results, raised>>

\* lines 491-496: askClaudeToFindCompanies returns a validated list; an empty
\* one breaks out of the loop
DiscoverReturns ==
    /\ pc = "discover"
    /\ \E cs \in ListsUpTo(CompanyPool, MaxBatch) :
           /\ companies' = cs
           /\ pc' = IF Len(cs) = 0 THEN "after_loop" ELSE "enrich"
           /\ calls' = Append(calls, IF Len(cs) = 0 THEN "discover_empty" ELSE "discover")
           /\ gained' = IF Len(cs) = 0 THEN Append(gained, 0) ELSE gained
           /\ progress(<<"in-progress", "success">> \o
                       (IF Len(cs) = 0 THEN <<"error">> ELSE <<>>))
    /\ UNCHANGED <<emails_sent_history, task_id, enrich_vars, side_vars, filter_vars, send_vars, inputs, history, session, attempt, contacts,
                   final_contacts, emails_with_bodies, final_results, raised>>

\* line 491: askClaudeToFindCompanies raises (the API call fails, json.loads
\* raises JSONDecodeError, the shape check raises ValueError); main has no
\* handler around the call, the exception leaves main
DiscoverRaises ==
    /\ pc = "discover"
    /\ \E e \in {"APIError", "JSONDecodeError", "ValueError"} : raised' = e
    /\ pc' = "raised"
    /\ calls' = Append(calls, "discover_raise")
    /\ progress(<<"in-progress">>)
    /\ UNCHANGED <<emails_sent_history, task_id, enrich_vars, side_vars, filter_vars, send_vars, inputs, history, session, attempt, companies,
                   contacts, final_contacts, emails_with_bodies, final_results, gained>>

\* faulty variant of Enrich: no contact at all breaks out of the loop
Enrich_break ==
    /\ pc = "enrich"
    /\ \E cs \in enrichCompaniesWithHunter(companies) :
           /\ contacts' = cs
           /\ pc' = IF Len(cs) = 0 THEN "after_loop" ELSE "filter"
           /\ gained' = IF Len(cs) = 0 THEN Append(gained, 0) ELSE gained
           /\ progress(<<"in-progress", "success">> \o
                       (IF Len(cs) = 0 THEN <<"error">> ELSE <<>>))
    /\ calls' = Append(calls, "enrich")
    /\ UNCHANGED <<emails_sent_history, task_id, enrich_vars, side_vars, filter_vars, send_vars, inputs, history, session,
                   attempt, companies, final_contacts, emails_with_bodies, final_results,
                   raised>>

\* lines 500-505: enrichCompaniesWithHunter; no contact at all continues the loop
Enrich ==
    /\ pc = "enrich"
    /\ \E cs \in enrichCompaniesWithHunter(companies) :
           /\ contacts' = cs
           /\ pc' = IF Len(cs) = 0 THEN "while" ELSE "filter"
           /\ gained' = IF Len(cs) = 0 THEN Append(gained, 0) ELSE gained
           /\ progress(<<"in-progress", "success">> \o
                       (IF Len(cs) = 0 THEN <<"error">> ELSE <<>>))
    /\ calls' = Append(calls, "enrich")
    /\ UNCHANGED <<emails_sent_history, task_id, enrich_vars, side_vars, filter_vars, send_vars, inputs, history, session, attempt, companies,
                   final_contacts, emails_with_bodies, final_results, raised>>

\* lines 507-539: filter against history and session, collect, test for enough.
\* Nothing reads this iteration's companies and contacts once it continues or
\* the filter has raised: they are dropped there, and after the loop on a break
FilterAndCollect ==
    /\ pc = "filter"
    /\ \E cleaned \in {FindEmailWorkFlowV2_main(contacts,
                                                user_emails_sent \cup session_emails,
                                                user_domains_contacted \cup session_domains)} :
       \E got \in {collect_loop(cleaned.val, num_emails, all_unique_contacts,
                                session_emails, session_domains)} :
           IF cleaned.exc # ""
           THEN /\ raised' = cleaned.exc /\ pc' = "raised"
                /\ progress(<<"in-progress">>)
                /\ companies' = <<>> /\ contacts' = <<>>
                /\ UNCHANGED <<session, gained>>
           ELSE IF Len(cleaned.val) = 0
           THEN /\ pc' = "while" /\ gained' = Append(gained, 0)
                /\ progress(<<"in-progress", "success", "in-progress">>)
                /\ companies' = <<>> /\ contacts' = <<>>
                /\ UNCHANGED <<raised, session>>
           ELSE /\ all_unique_contacts' = got.all
                /\ session_emails' = got.emails
                /\ session_domains' = got.domains
                /\ gained' = Append(gained, Len(got.all) - Len(all_unique_contacts))
                /\ pc' = IF Len(got.all) >= num_emails THEN "after_loop" ELSE "while"
                /\ progress(<<"in-progress", "success", "in-progress">> \o
                            (IF Len(got.all) >= num_emails THEN <<"success">> ELSE <<>>))
                /\ IF Len(got.all) >= num_emails
                   THEN UNCHANGED <<companies, contacts>>
                   ELSE companies' = <<>> /\ contacts' = <<>>
                /\ UNCHANGED raised
    /\ UNCHANGED <<emails_sent_history, task_id, enrich_vars, side_vars, filter_vars, send_vars, inputs, history, attempt,
                   final_contacts, emails_with_bodies, final_results, calls>>

\* faulty variant of AfterLoop: fewer contacts than asked for is an error
AfterLoop_raise ==
    /\ pc = "after_loop"
    /\ IF Len(all_unique_contacts) < num_emails
       THEN /\ raised' = "ValueError" /\ pc' = "raised" /\ UNCHANGED final_contacts
            /\ progress(<<"error">>)
       ELSE /\ final_contacts' = SubSeq(all_unique_contacts, 1, num_emails)
            /\ pc' = "draft" /\ UNCHANGED <<raised, progress_queue>>
    /\ companies' = <<>> /\ contacts' = <<>>
    /\ UNCHANGED <<emails_sent_history, task_id, enrich_vars, side_vars, filter_vars, send_vars, inputs, history, session, attempt,
                   emails_with_bodies, final_results, calls, gained>>

\* lines 541-551: nothing found returns the empty result; otherwise the list
\* handed to drafting is all_unique_contacts[:num_emails].  Nothing after the
\* loop reads companies or contacts: the last iteration's values are dropped
AfterLoop ==
    /\ pc = "after_loop"
    /\ IF Len(all_unique_contacts) = 0
       THEN /\ pc' = "done" /\ UNCHANGED final_contacts
            /\ progress(<<"error">>)
       ELSE /\ final_contacts' =
                   SubSeq(all_unique_contacts, 1,
                          IF Len(all_unique_contacts) < num_emails
                          THEN Len(all_unique_contacts) ELSE num_emails)
            /\ pc' = "draft"
            /\ progress(IF Len(all_unique_contacts) < num_emails
                        THEN <<"error">> ELSE <<>>)
    /\ companies' = <<>> /\ contacts' = <<>>
    /\ UNCHANGED <<emails_sent_history, task_id, enrich_vars, side_vars, filter_vars, send_vars, inputs, history, session, attempt,
                   emails_with_bodies, final_results, raised, calls, gained>>

\* line 555: createEmailsUsingClaude returns
DraftReturns ==
    /\ pc = "draft"
    /\ emails_with_bodies' \in createEmailsUsingClaude(final_contacts)
    /\ calls' = Append(calls, "draft")
    /\ progress(<<"in-progress", "success">>)
    /\ pc' = "send"
    /\ UNCHANGED <<emails_sent_history, task_id, enrich_vars, side_vars, filter_vars, send_vars, inputs, history, session, attempt, companies,
                   contacts, final_contacts, final_results, raised, gained>>

\* line 555: createEmailsUsingClaude raises (the API call, json.loads, the
\* shape check); main has no handler around the call
DraftRaises ==
    /\ pc = "draft"
    /\ \E e \in {"APIError", "JSONDecodeError", "ValueError"} : raised' = e
    /\ calls' = Append(calls, "draft_raise")
    /\ progress(<<"in-progress">>)
    /\ pc' = "raised"
    /\ UNCHANGED <<emails_sent_history, task_id, enrich_vars, side_vars, filter_vars, send_vars, inputs, history, session, attempt, companies,
                   contacts, final_contacts, emails_with_bodies, final_results, gained>>

\* SendEmailWorkFlowV2.main lines 57-62: prepare_emails, the SimpleEmailer
\* constructor (which raises ValueError for a sender domain that is not in
\* SMTP_SERVERS), the call of send_bulk_emails
Send ==
    /\ pc = "send"
    /\ progress(<<"in-progress">>)
    /\ IF ~sender_supported
       THEN /\ raised' = "ValueError" /\ pc' = "raised"
            /\ UNCHANGED <<send_vars, calls>>
       ELSE /\ emails' = prepare_emails(emails_with_bodies)
            /\ delay_seconds' = DefaultDelay
            /\ s_pc' = "sending" /\ pc' = "sending"
            /\ calls' = Append(calls, "send")
            /\ UNCHANGED <<s_i, success_count, failure_count, send_log, results, raised>>
    /\ UNCHANGED <<emails_sent_history, task_id, enrich_vars, side_vars, filter_vars, inputs, history, session, attempt,
                   companies, contacts, final_contacts, emails_with_bodies, final_results,
                   gained>>

\* lines 567-580: the result of the run
MainFinish ==
    /\ pc = "sending" /\ s_pc = "done"
    /\ final_results' =
           [successful |-> results.success, failed |-> results.failure,
            total |-> results.total,
            emails_sent |-> [i \in 1..Len(final_contacts) |->
                                final_contacts[i].email_address.val]]
    /\ progress(<<"success">>)
    /\ pc' = "done"
    /\ UNCHANGED <<emails_sent_history, task_id, enrich_vars, side_vars, filter_vars, send_vars, inputs, history, session,
                   attempt, companies, contacts, final_contacts, emails_with_bodies, raised,
                   calls, gained>>

\* ------------------------------------------------------ app.py run_workflow
AppIdle ==
    /\ emails_sent_history = json_dumps(<<>>) /\ progress_queue = <<>> /\ task_id = 0

\* the message that ends a run on the progress queue
Terminal(msg_type) == [type |-> msg_type, complete |-> TRUE]

\* lines 317-330: the user row is read; without one the worker reports it and
\* returns, otherwise the stored addresses and their domains are what main is
\* called with
RunWorkflowStart ==
    /\ pc = "worker"
    /\ \E found \in BOOLEAN :
           IF ~found
           THEN /\ progress_queue' = Append(progress_queue, Terminal("error"))
                /\ pc' = "finished"
                /\ UNCHANGED <<history, caller_domains>>
           ELSE LET stored == Range(get_emails_sent(emails_sent_history))
                IN  /\ user_emails_sent' = stored
                    /\ user_domains_contacted' = get_contacted_domains(stored)
                    /\ caller_domains' = get_contacted_domains(stored)
                    /\ pc' = "start"
                    /\ UNCHANGED progress_queue
    /\ UNCHANGED <<emails_sent_history, task_id, enrich_vars, side_vars, filter_vars, send_vars, api_key, sender_supported,
                   num_emails, max_attempts, session, attempt, companies, contacts,
                   final_contacts, emails_with_bodies, final_results, raised, calls, gained>>

\* faulty variant of RunWorkflowExcept: the failed run's contacts are recorded
RunWorkflowExcept_record ==
    /\ pc = "raised"
    /\ emails_sent_history' =
           add_sent_emails(emails_sent_history,
                           [i \in 1..Len(final_contacts) |->
                               final_contacts[i].email_address.val])
    /\ progress_queue' = Append(progress_queue, Terminal("error"))
    /\ pc' = "finished"
    /\ UNCHANGED <<task_id, enrich_vars, side_vars, filter_vars, send_vars, inputs, history, session, attempt, companies,
                   contacts, final_contacts, emails_with_bodies, final_results, raised,
                   calls, gained>>

\* faulty variant of RunWorkflowExcept: the error is reported as one more
\* progress message
RunWorkflowExcept_progress ==
    /\ pc = "raised"
    /\ progress(<<"error">>)
    /\ pc' = "finished"
    /\ UNCHANGED <<emails_sent_history, task_id, enrich_vars, side_vars, filter_vars, send_vars, inputs, history, session,
                   attempt, companies, contacts, final_contacts, emails_with_bodies,
                   final_results, raised, calls, gained>>

\* lines 374-379: an exception of main (or of the lines after it) is reported
\* as the terminal message; nothing is stored
RunWorkflowExcept ==
    /\ pc = "raised"
    /\ progress_queue' = Append(progress_queue, Terminal("error"))
    /\ pc' = "finished"
    /\ UNCHANGED <<emails_sent_history, task_id, enrich_vars, side_vars, filter_vars, send_vars, inputs, history, session,
                   attempt, companies, contacts, final_contacts, emails_with_bodies,
                   final_results, raised, calls, gained>>

\* lines 351-372: main returned; its emails_sent, when not empty, are added to
\* the stored history, the row is committed, the terminal message is put
RunWorkflowCommit ==
    /\ pc = "done"
    /\ IF Len(final_results.emails_sent) > 0
       THEN emails_sent_history' =
                add_sent_emails(emails_sent_history, final_results.emails_sent)
       ELSE UNCHANGED emails_sent_history
    /\ progress_queue' = Append(progress_queue, Terminal("success"))
    /\ pc' = "finished"
    /\ UNCHANGED <<task_id, enrich_vars, side_vars, filter_vars, send_vars, inputs, history, session, attempt, companies,
                   contacts, final_contacts, emails_with_bodies, final_results, raised,
                   calls, gained>>

\* lines 236-313, the /submit route once the previous task has finished: a
\* new task id and queue, a new worker with the form's num_emails; the
\* environment and the stored row are what they were
Submit ==
    /\ pc = "finished" /\ task_id < MaxRuns
    /\ task_id' = task_id + 1
    /\ progress_queue' = <<>>
    /\ pc' = "worker"
    /\ num_emails' \in 1..MaxN
    /\ user_emails_sent' = {} /\ user_domains_contacted' = {} /\ caller_domains' = {}
    /\ all_unique_contacts' = <<>> /\ session_emails' = {} /\ session_domains' = {}
    /\ attempt' = 0 /\ companies' = <<>> /\ contacts' = <<>> /\ final_contacts' = <<>>
    /\ emails_with_bodies' = <<>>
    /\ final_results' = [successful |-> 0, failed |-> 0, total |-> 0, emails_sent |-> <<>>]
    /\ raised' = "" /\ calls' = <<>> /\ gained' = <<>>
    /\ s_pc' = "idle" /\ emails' = <<>> /\ delay_seconds' = 0 /\ s_i' = 0
    /\ success_count' = 0 /\ failure_count' = 0 /\ send_log' = <<>>
    /\ results' = [success |-> 0, failure |-> 0, total |-> 0]
    /\ UNCHANGED <<emails_sent_history, api_key, sender_supported, max_attempts,
                   filter_vars, enrich_vars, side_vars>>

\* ------------------------------------------------------- specifications
\* one run of the background worker of /submit, which admits num_emails in
\* 1..50: the stored history holds any addresses of HistoryPool
StoredHistories == {json_dumps(list(S)) : S \in SUBSET HistoryPool}

Init ==
    /\ FilterIdle /\ SendIdle /\ EnrichIdle /\ SideIdle
    /\ pc = "worker"
    /\ emails_sent_history \in StoredHistories
    /\ progress_queue = <<>>
    /\ task_id = 1
    /\ api_key \in BOOLEAN
    /\ sender_supported \in BOOLEAN
    /\ num_emails \in 1..MaxN
    /\ max_attempts \in 1..MaxA
    /\ user_emails_sent = {} /\ user_domains_contacted = {} /\ caller_domains = {}
    /\ all_unique_contacts = <<>> /\ session_emails = {} /\ session_domains = {}
    /\ attempt = 0 /\ companies = <<>> /\ contacts = <<>> /\ final_contacts = <<>>
    /\ emails_with_bodies = <<>>
    /\ final_results = [successful |-> 0, failed |-> 0, total |-> 0, emails_sent |-> <<>>]
    /\ raised = "" /\ calls = <<>> /\ gained = <<>>

Next ==
    \/ RunWorkflowStart
    \/ MainStart
    \/ WhileTest
    \/ DiscoverReturns
    \/ DiscoverRaises
    \/ Enrich
    \/ FilterAndCollect
    \/ AfterLoop
    \/ DraftReturns
    \/ DraftRaises
    \/ Send
    \/ SendOne
    \/ SendFinish
    \/ MainFinish
    \/ RunWorkflowCommit
    \/ RunWorkflowExcept

Spec == Init /\ [][Next]_vars

\* the worker thread is scheduled until run_workflow returns, and every call
\* it makes returns or raises
FairSpec == Spec /\ WF_vars(Next)

\* the runs of one user, one after the other: the column starts NULL or with
\* any stored history, the API key is configured, one attempt per run
NullColumn == [tag |-> "null", val |-> <<>>]

InitApp ==
    /\ FilterIdle /\ SendIdle /\ EnrichIdle /\ SideIdle
    /\ pc = "worker"
    /\ emails_sent_history \in StoredHistories \cup {NullColumn}
    /\ progress_queue = <<>>
    /\ task_id = 1
    /\ api_key = TRUE
    /\ sender_supported \in BOOLEAN
    /\ num_emails \in 1..MaxN
    /\ max_attempts = 1
    /\ user_emails_sent = {} /\ user_domains_contacted = {} /\ caller_domains = {}
    /\ all_unique_contacts = <<>> /\ session_emails = {} /\ session_domains = {}
    /\ attempt = 0 /\ companies = <<>> /\ contacts = <<>> /\ final_contacts = <<>>
    /\ emails_with_bodies = <<>>
    /\ final_results = [successful |-> 0, failed |-> 0, total |-> 0, emails_sent |-> <<>>]
    /\ raised = "" /\ calls = <<>> /\ gained = <<>>

NextApp ==
    \/ Next
    \/ Submit

SpecApp == InitApp /\ [][NextApp]_vars

\* the filter alone, over every contact list and forbidden-domain set in bounds
InitFilter ==
    /\ MainIdle /\ SendIdle /\ AppIdle /\ EnrichIdle /\ SideIdle
    /\ f_pc = "call"
    /\ \E k \in 0..MaxContacts : f_contacts \in [1..k -> FilterInputs]
    /\ f_domains \in SUBSET DomainPool
    /\ f_out = [exc |-> "", val |-> <<>>]

NextFilter == FilterCall

SpecFilter == InitFilter /\ [][NextFilter]_vars

\* send_bulk_emails alone, over every message list and delay in bounds
RecipientPool == {Addr(<<"a">>, acme), Addr(<<"a">>, globex)}

InitSend ==
    /\ MainIdle /\ FilterIdle /\ AppIdle /\ EnrichIdle /\ SideIdle
    /\ s_pc = "sending"
    /\ emails \in ListsUpTo(RecipientPool, MaxEmails)
    /\ delay_seconds \in 0..MaxDelay
    /\ s_i = 0 /\ success_count = 0 /\ failure_count = 0 /\ send_log = <<>>
    /\ results = [success |-> 0, failure |-> 0, total |-> 0]

NextSend ==
    \/ SendOne
    \/ SendFinish

SpecSend == InitSend /\ [][NextSend]_vars

\* enrichCompaniesWithHunter alone, over every list of companies and every
\* answer of the domain search in bounds
InitEnrich ==
    /\ MainIdle /\ FilterIdle /\ SendIdle /\ AppIdle /\ SideIdle
    /\ h_pc = "loop"
    /\ h_companies \in ListsUpTo(CompanyPool, MaxBatch)
    /\ h_i = 0 /\ h_data = RequestFails /\ h_last = <<>> /\ h_contacts = <<>>

NextEnrich ==
    \/ EnrichOne
    \/ EnrichReturn

SpecEnrich == InitEnrich /\ [][NextEnrich]_vars

\* ------------------- askClaudeToFindCompanies, from the answer of the LLM on
\* The response text is a sequence of lexemes: "fence" is the three
\* backquotes of a code fence, "json" the word after an opening fence, " "
\* any run of whitespace; "[", "]" and
\* "," are JSON's, "nd" is a JSON object holding company_name and domain, "n"
\* one holding company_name only, "d" one holding domain only
MaxBody == 4         \* most JSON lexemes of a response

Fence == "fence"
JsonLexemes == {"[", "]", ",", "nd", "n", "d"}

\* str.strip
RECURSIVE lstrip(_)
lstrip(s) == IF s # <<>> /\ Head(s) = " " THEN lstrip(Tail(s)) ELSE s
RECURSIVE rstrip(_)
rstrip(s) ==
    IF s # <<>> /\ s[Len(s)] = " " THEN rstrip(SubSeq(s, 1, Len(s) - 1)) ELSE s
strip(s) == rstrip(lstrip(s))

endswith(s, suffix) ==
    Len(suffix) <= Len(s) /\ SubSeq(s, Len(s) - Len(suffix) + 1, Len(s)) = suffix

\* faulty variant of clean_response: a closing fence is left in place
clean_response_open(text) ==
    LET stripped == strip(text)
    IN  strip(IF startswith(stripped, <<Fence, "json">>)
              THEN SubSeq(stripped, 3, Len(stripped))
              ELSE IF startswith(stripped, <<Fence>>)
              THEN SubSeq(stripped, 2, Len(stripped))
              ELSE stripped)

\* lines 136-143: the text that is parsed
clean_response(text) ==
    LET stripped == strip(text)
        opened == IF startswith(stripped, <<Fence, "json">>)
                  THEN SubSeq(stripped, 3, Len(stripped))
                  ELSE IF startswith(stripped, <<Fence>>)
                  THEN SubSeq(stripped, 2, Len(stripped))
                  ELSE stripped
        closed == IF endswith(opened, <<Fence>>)
                  THEN SubSeq(opened, 1, Len(opened) - 1)
                  ELSE opened
    IN  strip(closed)

\* JSON values: a dict with its keys, or a list with its items
JsonDict(keys) == [kind |-> "dict", keys |-> keys, items |-> <<>>]
JsonList(items) == [kind |-> "list", keys |-> {}, items |-> items]
NoParse == [ok |-> FALSE, val |-> JsonList(<<>>), next |-> 0]

NotSpace(lexeme) == lexeme # " "

\* json.loads: whitespace between lexemes is skipped, one value must span the
\* whole text; anything else raises JSONDecodeError
RECURSIVE parse_value(_, _)
RECURSIVE parse_items(_, _, _)
parse_value(t, i) ==
    IF i > Len(t) THEN NoParse
    ELSE IF t[i] = "nd"
    THEN [ok |-> TRUE, val |-> JsonDict({"company_name", "domain"}), next |-> i + 1]
    ELSE IF t[i] = "n"
    THEN [ok |-> TRUE, val |-> JsonDict({"company_name"}), next |-> i + 1]
    ELSE IF t[i] = "d"
    THEN [ok |-> TRUE, val |-> JsonDict({"domain"}), next |-> i + 1]
    ELSE IF t[i] = "["
    THEN IF i + 1 <= Len(t) /\ t[i + 1] = "]"
         THEN [ok |-> TRUE, val |-> JsonList(<<>>), next |-> i + 2]
         ELSE parse_items(t, i + 1, <<>>)
    ELSE NoParse

parse_items(t, i, acc) ==
    LET v == parse_value(t, i)
    IN  IF ~v.ok \/ v.next > Len(t) THEN NoParse
        ELSE IF t[v.next] = ","
        THEN parse_items(t, v.next + 1, Append(acc, v.val))
        ELSE IF t[v.next] = "]"
        THEN [ok |-> TRUE, val |-> JsonList(Append(acc, v.val)), next |-> v.next + 1]
        ELSE NoParse

json_loads(text) ==
    LET t == SelectSeq(text, NotSpace)
        v == parse_value(t, 1)
    IN  IF v.ok /\ v.next = Len(t) + 1
        THEN [exc |-> "", val |-> v.val]
        ELSE [exc |-> "JSONDecodeError", val |-> JsonList(<<>>)]

\* lines 154-166: the first element that is no dict, or lacks a key, raises
RECURSIVE validate_items(_)
validate_items(items) ==
    IF items = <<>> THEN TRUE
    ELSE /\ Head(items).kind = "dict"
         /\ "company_name" \in Head(items).keys
         /\ "domain" \in Head(items).keys
         /\ validate_items(Tail(items))

\* lines 133-168: what askClaudeToFindCompanies does with the response text
askClaudeToFindCompanies(text) ==
    LET parsed == json_loads(clean_response(text))
    IN  IF parsed.exc # "" THEN [exc |-> parsed.exc, val |-> <<>>]
        ELSE IF parsed.val.kind # "list" THEN [exc |-> "ValueError", val |-> <<>>]
        ELSE IF ~validate_items(parsed.val.items)
        THEN [exc |-> "ValueError", val |-> <<>>]
        ELSE [exc |-> "", val |-> parsed.val.items]

\* what the LLM can put before and after the JSON
Openings ==
    {<<>>, <<Fence>>, <<Fence, "json", " ">>, <<" ", Fence, " ">>, <<"json">>}
Closings == {<<>>, <<Fence>>, <<" ", Fence, " ">>, <<Fence, Fence>>}


AskClaude ==
    /\ d_pc = "call"
    /\ d_out' = askClaudeToFindCompanies(response_text)
    /\ d_pc' = IF askClaudeToFindCompanies(response_text).exc # ""
              THEN "raised" ELSE "returned"
    /\ UNCHANGED <<response_text, handshake_vars, overlap_vars,
                   filter_vars, send_vars, main_vars, app_vars, enrich_vars>>

\* askClaudeToFindCompanies alone, over every response text in bounds
InitDiscover ==
    /\ MainIdle /\ FilterIdle /\ SendIdle /\ AppIdle /\ EnrichIdle
    /\ HandshakeIdle /\ OverlapIdle
    /\ d_pc = "call"
    /\ \E o \in Openings, c \in Closings :
           \E b \in ListsUpTo(JsonLexemes, MaxBody) : response_text = o \o b \o c
    /\ d_out = [exc |-> "", val |-> <<>>]

NextDiscover == AskClaude

SpecDiscover == InitDiscover /\ [][NextDiscover]_vars

\* --------------------- the Handshake DM campaign of one task (task id 1)
max_wait_time == 300 \* login_to_handshake: seconds the gate waits
MaxDMs == 1          \* largest num_dms of a campaign
MaxEmployers == 2    \* most employers the search page lists

\* company names, as clean_company_name returns them
EmployerPool == {"x", "y"}

\* app.py 553-563: a confirmation request for a task id sets the flag of that
\* id when the id is registered, and is refused otherwise
confirm_handshake_login ==
    /\ g_pc # "idle"
    /\ \E task \in Workers :
           handshake_login_confirmed' =
               IF task \in DOMAIN handshake_login_confirmed
               THEN [handshake_login_confirmed EXCEPT ![task] = TRUE]
               ELSE handshake_login_confirmed
    /\ UNCHANGED <<g_pc, elapsed, polls, dm_log_file, user_companies_contacted, num_dms,
                   employer_names, e_i, messages_sent, discover_vars, overlap_vars,
                   filter_vars, send_vars, main_vars, app_vars, enrich_vars>>

\* finally of run_handshake_workflow (app.py 530-533): the task's flag is removed
Cleanup ==
    handshake_login_confirmed' =
        [t \in DOMAIN handshake_login_confirmed \ {1} |-> handshake_login_confirmed[t]]

\* login_confirmed_callback (app.py 501): handshake_login_confirmed.get(task_id, False)
login_confirmed_callback ==
    IF 1 \in DOMAIN handshake_login_confirmed THEN handshake_login_confirmed[1] ELSE FALSE

\* app.py 471-503, HandshakeDMAutomation.main and run_dm_campaign up to the
\* gate (1362-1290, 268-286): without the user row, with a missing resume
\* file, or when the browser or the login page fails, the run ends with no DM
HandshakeStart ==
    /\ g_pc = "worker"
    /\ \E reaches_gate \in BOOLEAN :
           IF reaches_gate
           THEN g_pc' = "polling" /\ UNCHANGED handshake_login_confirmed
           ELSE g_pc' = "finished" /\ Cleanup
    /\ UNCHANGED <<elapsed, polls, dm_log_file, user_companies_contacted, num_dms,
                   employer_names, e_i, messages_sent, discover_vars, overlap_vars,
                   filter_vars, send_vars, main_vars, app_vars, enrich_vars>>

\* faulty variant of GatePoll: the wait is not counted
GatePoll_uncounted ==
    /\ g_pc = "polling" /\ elapsed < max_wait_time
    /\ polls' = IF polls < max_wait_time THEN polls + 1 ELSE polls
    /\ IF login_confirmed_callback
       THEN g_pc' = "verify"
       ELSE UNCHANGED g_pc
    /\ UNCHANGED <<elapsed, handshake_login_confirmed, dm_log_file, user_companies_contacted,
                   num_dms, employer_names, e_i, messages_sent, discover_vars,
                   overlap_vars, filter_vars, send_vars, main_vars, app_vars, enrich_vars>>

\* lines 288-293, one iteration of the polling loop: the callback is asked;
\* True leaves the loop, otherwise sleep one second and count it
GatePoll ==
    /\ g_pc = "polling" /\ elapsed < max_wait_time
    /\ polls' = polls + 1
    /\ IF login_confirmed_callback
       THEN g_pc' = "verify" /\ UNCHANGED elapsed
       ELSE elapsed' = elapsed + 1 /\ UNCHANGED g_pc
    /\ UNCHANGED <<handshake_login_confirmed, dm_log_file, user_companies_contacted,
                   num_dms, employer_names, e_i, messages_sent, discover_vars,
                   overlap_vars, filter_vars, send_vars, main_vars, app_vars, enrich_vars>>

\* lines 294-298 and 1290-1291: the loop's else returns False, run_dm_campaign
\* returns its empty results, the worker finishes
GateTimeout ==
    /\ g_pc = "polling" /\ elapsed >= max_wait_time
    /\ g_pc' = "finished" /\ Cleanup
    /\ UNCHANGED <<elapsed, polls, dm_log_file, user_companies_contacted, num_dms,
                   employer_names, e_i, messages_sent, discover_vars, overlap_vars,
                   filter_vars, send_vars, main_vars, app_vars, enrich_vars>>

\* lines 300-318 and 1293-1309: login verification; when it succeeds the
\* employer search page is loaded and its employers extracted (line 840)
LoginVerify ==
    /\ g_pc = "verify"
    /\ \E verified \in BOOLEAN :
           IF verified
           THEN /\ g_pc' = "dms"
                /\ employer_names' \in ListsUpTo(EmployerPool, MaxEmployers)
                /\ UNCHANGED handshake_login_confirmed
           ELSE g_pc' = "finished" /\ Cleanup /\ UNCHANGED employer_names
    /\ UNCHANGED <<elapsed, polls, dm_log_file, user_companies_contacted, num_dms,
                   e_i, messages_sent, discover_vars, overlap_vars,
                   filter_vars, send_vars, main_vars, app_vars, enrich_vars>>

\* sendAllDMs lines 842-903, one employer: a company of the DM log file (with
\* those saved during this campaign) is skipped; otherwise a DM is sent when
\* a recruiter is found and the send succeeds, and the company is saved
SendOneDM ==
    /\ g_pc = "dms" /\ e_i < Len(employer_names) /\ Len(messages_sent) < num_dms
    /\ e_i' = e_i + 1
    /\ IF employer_names[e_i + 1] \in dm_log_file
       THEN UNCHANGED <<messages_sent, dm_log_file>>
       ELSE \E sent \in BOOLEAN :
                IF sent
                THEN /\ messages_sent' = Append(messages_sent, employer_names[e_i + 1])
                     /\ dm_log_file' = dm_log_file \cup {employer_names[e_i + 1]}
                ELSE UNCHANGED <<messages_sent, dm_log_file>>
    /\ UNCHANGED <<g_pc, elapsed, polls, handshake_login_confirmed,
                   user_companies_contacted, num_dms, employer_names, discover_vars,
                   overlap_vars, filter_vars, send_vars, main_vars, app_vars, enrich_vars>>

\* sendAllDMs returns (lines 843-844, 905), the worker stores the messages
\* and finishes (app.py 505-533)
CampaignReturns ==
    /\ g_pc = "dms"
    /\ e_i = Len(employer_names) \/ Len(messages_sent) >= num_dms
    /\ g_pc' = "finished" /\ Cleanup
    /\ user_companies_contacted' =
           user_companies_contacted \cup Range(messages_sent)
    /\ UNCHANGED <<elapsed, polls, dm_log_file, num_dms, employer_names, e_i,
                   messages_sent, discover_vars, overlap_vars,
                   filter_vars, send_vars, main_vars, app_vars, enrich_vars>>

\* one campaign: the flags of the task and of another task are registered
\* False (app.py 465); any DM log file and any stored DM history
InitHandshake ==
    /\ MainIdle /\ FilterIdle /\ SendIdle /\ AppIdle /\ EnrichIdle
    /\ DiscoverIdle /\ OverlapIdle
    /\ g_pc = "worker" /\ elapsed = 0 /\ polls = 0
    /\ handshake_login_confirmed = [t \in Workers |-> FALSE]
    /\ dm_log_file \in SUBSET EmployerPool
    /\ user_companies_contacted \in SUBSET EmployerPool
    /\ num_dms \in 1..MaxDMs
    /\ employer_names = <<>> /\ e_i = 0 /\ messages_sent = <<>>

WorkerHandshake ==
    \/ HandshakeStart
    \/ GatePoll
    \/ GateTimeout
    \/ LoginVerify
    \/ SendOneDM
    \/ CampaignReturns

NextHandshake ==
    \/ WorkerHandshake
    \/ confirm_handshake_login

SpecHandshake == InitHandshake /\ [][NextHandshake]_vars

\* the worker thread is scheduled; nobody has to confirm
FairHandshake == SpecHandshake /\ WF_vars(WorkerHandshake)

\* ------------------------------------------- app.py, overlapping runs
\* two /submit requests of one user, each with its own worker thread and its
\* own session (lines 306-385): a thread's User object holds the column as
\* it was when the thread loaded it, and nothing refreshes it before the
\* thread's commit
OverlapPool == HistoryPool \cup ExcelPool

\* what main hands back as emails_sent to a worker that passed it the
\* history `column`: distinct addresses, none of a domain of that history
OverlapResults(column) ==
    {l \in ListsUpTo(OverlapPool, Cardinality(OverlapPool)) :
        /\ Cardinality(Range(l)) = Len(l)
        /\ \A i \in 1..Len(l) :
               Split(l[i], "@")[2] \notin get_contacted_domains(Range(get_emails_sent(column)))}

\* lines 319-332: db.session.get(User, user_id) in the thread's own context
OverlapLoad ==
    \E w \in Workers :
        /\ w_pc[w] = "worker"
        /\ w_user' = [w_user EXCEPT ![w] = emails_sent_history]
        /\ w_pc' = [w_pc EXCEPT ![w] = "loaded"]
        /\ UNCHANGED <<w_emails_sent, emails_sent_history, progress_queue, task_id,
                       filter_vars, send_vars, main_vars, enrich_vars,
                       discover_vars, handshake_vars>>

\* lines 334-353: main returns its results for the history the thread loaded
OverlapMainReturns ==
    \E w \in Workers :
        /\ w_pc[w] = "loaded"
        /\ w_emails_sent' \in {[w_emails_sent EXCEPT ![w] = l] : l \in OverlapResults(w_user[w])}
        /\ w_pc' = [w_pc EXCEPT ![w] = "returned"]
        /\ UNCHANGED <<w_user, emails_sent_history, progress_queue, task_id,
                       filter_vars, send_vars, main_vars, enrich_vars,
                       discover_vars, handshake_vars>>

\* lines 355-365: add_sent_emails on the thread's User object when the list
\* is not empty, then the commit, which writes the object's column
OverlapCommit ==
    \E w \in Workers :
        /\ w_pc[w] = "returned"
        /\ \E column \in {IF w_emails_sent[w] # <<>>
                          THEN add_sent_emails(w_user[w], w_emails_sent[w])
                          ELSE w_user[w]} :
               /\ w_user' = [w_user EXCEPT ![w] = column]
               /\ emails_sent_history' =
                      IF w_emails_sent[w] # <<>> THEN column ELSE emails_sent_history
        /\ w_pc' = [w_pc EXCEPT ![w] = "finished"]
        /\ UNCHANGED <<w_emails_sent, progress_queue, task_id,
                       filter_vars, send_vars, main_vars, enrich_vars,
                       discover_vars, handshake_vars>>

\* lines 377-382: main raised; the thread reports the error and stores nothing
OverlapExcept ==
    \E w \in Workers :
        /\ w_pc[w] = "loaded"
        /\ w_pc' = [w_pc EXCEPT ![w] = "failed"]
        /\ UNCHANGED <<w_user, w_emails_sent, emails_sent_history, progress_queue,
                       task_id, filter_vars, send_vars, main_vars, enrich_vars,
                       discover_vars, handshake_vars>>

InitOverlap ==
    /\ MainIdle /\ FilterIdle /\ SendIdle /\ EnrichIdle
    /\ DiscoverIdle /\ HandshakeIdle
    /\ progress_queue = <<>> /\ task_id = 1
    /\ emails_sent_history \in StoredHistories \cup {NullColumn}
    /\ w_pc = [w \in Workers |-> "worker"]
    /\ w_user = [w \in Workers |-> NullColumn]
    /\ w_emails_sent = [w \in Workers |-> <<>>]

NextOverlap ==
    \/ OverlapLoad
    \/ OverlapMainReturns
    \/ OverlapCommit
    \/ OverlapExcept

SpecOverlap == InitOverlap /\ [][NextOverlap]_vars

\* ---------------------------------------------------------------- claims
AtPositions(s) == {i \in 1..Len(s) : s[i] = "@"}
Min(S) == CHOOSE x \in S : \A y \in S : x <= y

\* the text after the first "@" of s, up to its next "@" or its end
TextAfterAt(s) ==
    LET i == Min(AtPositions(s))
        later == {j \in AtPositions(s) : j > i}
    IN  SubSeq(s, i + 1, IF later = {} THEN Len(s) ELSE Min(later) - 1)

AddressOf(c) == dict_get(c, "email_address", PyStr(<<>>)).val

DiscoveryCalls(log) ==
    Count(log, "discover") + Count(log, "discover_empty") + Count(log, "discover_raise")

\* C1: every contact the acquisition loop has collected, and every contact of
\* the list it hands to drafting, has an address with an "@" whose domain (the
\* text after that "@") is not in the history-domain set the caller supplied
C1_ReturnedDomainsNotInHistory ==
    \A c \in {all_unique_contacts[i] : i \in 1..Len(all_unique_contacts)} \cup
             {final_contacts[i] : i \in 1..Len(final_contacts)} :
        /\ AtPositions(AddressOf(c)) # {}
        /\ TextAfterAt(AddressOf(c)) \notin caller_domains

\* a loop that ends with a contact to hand to drafting, its last batch having
\* held a contact at a domain of the history
C1_Witness ==
    /\ pc = "after_loop" /\ caller_domains = {acme} /\ Len(all_unique_contacts) >= 1
    /\ \E i \in 1..Len(contacts) :
           /\ contacts[i].email_address.tag = "str"
           /\ AtPositions(AddressOf(contacts[i])) # {}
           /\ TextAfterAt(AddressOf(contacts[i])) \in caller_domains

\* C2: the loop never holds more than num_emails contacts, and the list handed
\* to drafting holds at most num_emails
C2_AtMostN ==
    /\ Len(all_unique_contacts) <= num_emails
    /\ Len(final_contacts) <= num_emails

\* the first batch brings two admissible contacts when one is asked for
C2_Witness ==
    /\ num_emails = 1 /\ attempt = 1 /\ Len(contacts) = 2 /\ pc = "after_loop"
    /\ \A i \in 1..2 :
           /\ contacts[i].email_address.tag = "str"
           /\ AtPositions(AddressOf(contacts[i])) # {}
           /\ TextAfterAt(AddressOf(contacts[i])) \notin user_domains_contacted
    /\ Len(all_unique_contacts) = 1

\* C3: when the filter returns, it returns the contacts c of its input, in
\* order, with "@" in c's address and address.split("@")[1] not in the
\* forbidden domains
C3_Admits(c) ==
    /\ Contains(AddressOf(c), "@")
    /\ Split(AddressOf(c), "@")[2] \notin f_domains

C3_FilterAdmitsIff ==
    f_pc = "returned" => f_out.val = SelectSeq(f_contacts, C3_Admits)

\* forbidden {acme}: the contact at acme is dropped, the one at globex kept
C3_Witness ==
    /\ f_pc = "returned" /\ f_domains = {acme}
    /\ f_contacts = <<[company_name |-> "x", email_address |-> PyStr(Addr(<<"a">>, acme))],
                      [company_name |-> "x", email_address |-> PyStr(Addr(<<"a">>, globex))]>>
    /\ f_out.val = <<[company_name |-> "x", email_address |-> PyStr(Addr(<<"a">>, globex))]>>

\* C4: the attempt counter never exceeds max_attempts, and a run makes at most
\* max_attempts discovery calls and at most max_attempts enrichment calls
C4_AttemptBudget ==
    /\ attempt <= max_attempts
    /\ DiscoveryCalls(calls) <= max_attempts
    /\ Count(calls, "enrich") <= max_attempts

\* the budget is used up without enough contacts
C4_Witness ==
    /\ pc = "after_loop" /\ max_attempts = 2 /\ attempt = 2
    /\ Len(all_unique_contacts) < num_emails
    /\ DiscoveryCalls(calls) = 2 /\ Count(calls, "enrich") = 2

\* C5: leaving the loop with fewer than num_emails contacts raises nothing:
\* with no contact the run returns, otherwise exactly the collected contacts
\* go to drafting; and with num_emails = 3, max_attempts = 2 and every
\* iteration collecting exactly one contact, the loop ends after 2 attempts
\* with 2 contacts
LoopEnded == pc \in {"after_loop", "draft", "send", "sending", "done"}

C5_Scenario ==
    (/\ num_emails = 3 /\ max_attempts = 2 /\ LoopEnded
     /\ gained # <<>> /\ \A i \in 1..Len(gained) : gained[i] = 1)
    => (attempt = 2 /\ Len(all_unique_contacts) = 2 /\ raised = "")

C5_PartialSuccess ==
    /\ [][(pc = "after_loop" /\ Len(all_unique_contacts) < num_emails)
          => /\ raised' = ""
             /\ pc' = IF Len(all_unique_contacts) = 0 THEN "done" ELSE "draft"
             /\ Len(all_unique_contacts) > 0 => final_contacts' = all_unique_contacts]_vars
    /\ []C5_Scenario

C5_Witness ==
    /\ num_emails = 3 /\ max_attempts = 2 /\ pc = "draft" /\ gained = <<1, 1>>
    /\ attempt = 2 /\ Len(final_contacts) = 2 /\ final_contacts = all_unique_contacts

C7_DiscoveryErrorRetried ==
    (calls # <<>> /\ calls[Len(calls)] = "discover_raise" /\ attempt < max_attempts)
    => pc # "raised"

\* C8 as stated: the filter returns the contacts whose address has exactly one
\* "@" and whose text after it is not forbidden
C8_AdmitsExactlyOne(c) ==
    /\ Cardinality(AtPositions(AddressOf(c))) = 1
    /\ TextAfterAt(AddressOf(c)) \notin f_domains

C8_ExactlyOneAt ==
    f_pc = "returned" => f_out.val = SelectSeq(f_contacts, C8_AdmitsExactlyOne)

\* C8 amended: the filter returns the contacts whose address has at least one
\* "@" and whose text between the first "@" and the next "@" (or the end) is
\* not forbidden; an address without "@" is never returned
C8_AdmitsFirstSegment(c) ==
    /\ Cardinality(AtPositions(AddressOf(c))) >= 1
    /\ TextAfterAt(AddressOf(c)) \notin f_domains

C8_AtLeastOneAt ==
    f_pc = "returned" =>
        /\ f_out.val = SelectSeq(f_contacts, C8_AdmitsFirstSegment)
        /\ \A i \in 1..Len(f_out.val) : AtPositions(AddressOf(f_out.val[i])) # {}

\* an address with two "@" is admitted although the text after its last "@"
\* is forbidden
C8_Witness ==
    /\ f_pc = "returned" /\ f_domains = {<<>>}
    /\ f_contacts = <<[company_name |-> "x",
                       email_address |-> PyStr(<<"a", "@", "a", "@">>)]>>
    /\ f_out.val = f_contacts

\* C9: the filter never raises
C9_FilterNeverRaises == f_pc # "raised"

\* C10: the messages attempted so far are the first s_i messages of the list,
\* each once and in order, the counts are the numbers of successful and failed
\* attempts, and the returned counts add up to the length of the list
IsSend(e) == e.ev = "send"
SendEvents == SelectSeq(send_log, IsSend)
Succeeded == Cardinality({j \in 1..Len(SendEvents) : SendEvents[j].ok})
Failed == Cardinality({j \in 1..Len(SendEvents) : ~SendEvents[j].ok})

C10_EveryMessageOnce ==
    /\ Len(SendEvents) = s_i
    /\ \A j \in 1..Len(SendEvents) : j <= Len(emails) /\ SendEvents[j].to = emails[j]
    /\ success_count = Succeeded /\ failure_count = Failed
    /\ s_pc = "done" =>
           /\ Len(SendEvents) = Len(emails)
           /\ results.success = Succeeded /\ results.failure = Failed
           /\ results.total = Len(emails)
           /\ results.success + results.failure = results.total

\* three messages, the first fails, the later two are sent
C10_Witness ==
    /\ s_pc = "done" /\ Len(emails) = 3 /\ Len(SendEvents) = 3
    /\ ~SendEvents[1].ok /\ SendEvents[2].ok /\ SendEvents[3].ok
    /\ results = [success |-> 2, failure |-> 1, total |-> 3]

\* C11: every recipient a message of the run is sent to is the address of one
\* of the contacts the loop handed to drafting, and once the run has sent its
\* batch the number of messages sent is the number of those contacts
C11_SameContactsDrafted ==
    /\ \A j \in 1..Len(SendEvents) :
           \E i \in 1..Len(final_contacts) :
               SendEvents[j].to = final_contacts[i].email_address.val
    /\ (pc = "done" /\ Count(calls, "send") = 1) =>
           Len(SendEvents) = Len(final_contacts)

\* C13: a run without the API key, or with a sender address whose domain is
\* not in SMTP_SERVERS, has made no discovery, enrichment, drafting or send call
C13_ConfigErrorBeforeAnyCall ==
    (~api_key \/ ~sender_supported) => calls = <<>>

\* C12: once createEmailsUsingClaude has raised, the run has raised: main is
\* left with the exception, no message was handed to the delivery client or
\* sent, and no later step changes the stored sent-email history
C12_Raised ==
    Count(calls, "draft_raise") > 0 =>
        /\ pc \in {"raised", "finished"} /\ raised # ""
        /\ Count(calls, "send") = 0 /\ s_pc = "idle" /\ send_log = <<>>

C12_DraftFailureFatal ==
    /\ []C12_Raised
    /\ [][Count(calls, "draft_raise") > 0 => emails_sent_history' = emails_sent_history]_vars

\* drafting fails for a batch of two contacts and the worker has reported it
C12_Witness ==
    /\ pc = "finished" /\ Count(calls, "draft_raise") = 1
    /\ Len(final_contacts) = 2
    /\ progress_queue[Len(progress_queue)] = Terminal("error")

\* C18: every run of the worker ends, and the worker puts no message flagged
\* complete on the progress queue before it ends and exactly one as it ends,
\* which is the last message on the queue
Complete(msg) == dict_get(msg, "complete", FALSE)
Completes == {i \in 1..Len(progress_queue) : Complete(progress_queue[i])}

C18_OneTerminalLast ==
    /\ pc = "finished" => Completes = {Len(progress_queue)} /\ Len(progress_queue) > 0
    /\ pc # "finished" => Completes = {}

C18_TerminalSummary ==
    /\ []C18_OneTerminalLast
    /\ <>(pc = "finished")

\* a run that found one contact where two were asked for has sent its message
\* and ended with the terminal message
C18_Witness ==
    /\ pc = "finished" /\ Len(progress_queue) > 1
    /\ Len(final_contacts) = 1 /\ num_emails = 2 /\ final_results.total = 1
    /\ progress_queue[Len(progress_queue)] = Terminal("success")

\* C19: every step leaves the collected list a prefix of its next value; the
\* step that filters a batch appends to it the batch's admitted contacts, in
\* the order enrichment returned them and as many as are still needed; and the
\* list handed to drafting is a prefix of the collected list
IsPrefix(s, t) == Len(s) <= Len(t) /\ SubSeq(t, 1, Len(s)) = s

C19_Ok(c) ==
    /\ c.email_address.tag = "str"
    /\ AtPositions(AddressOf(c)) # {}
    /\ TextAfterAt(AddressOf(c)) \notin user_domains_contacted \cup session_domains

C19_Admitted == SelectSeq(contacts, C19_Ok)

C19_AppendOnly ==
    [][/\ IsPrefix(all_unique_contacts, all_unique_contacts')
       /\ pc = "filter" =>
              \E k \in 0..Len(C19_Admitted) :
                  /\ all_unique_contacts' =
                         all_unique_contacts \o SubSeq(C19_Admitted, 1, k)
                  /\ pc' # "raised" =>
                         k = Min({Len(C19_Admitted),
                                  num_emails - Len(all_unique_contacts)})
       /\ pc # "filter" => all_unique_contacts' = all_unique_contacts
       /\ IsPrefix(final_contacts', all_unique_contacts')]_vars

\* a batch of two admitted contacts was appended to a list that held one
C19_Witness ==
    /\ gained = <<1, 2>> /\ Len(all_unique_contacts) = 3
    /\ pc = "draft" /\ final_contacts = all_unique_contacts

\* an iteration ends having collected nothing
C20_EmptyIteration == Len(gained') = Len(gained) + 1 /\ gained'[Len(gained')] = 0

C14_Records ==
    IF h_data.kind = "json" /\ "data" \in DOMAIN h_data.body
    THEN dict_get(h_data.body.data, "emails", <<>>) ELSE <<>>

\* the score as the documentation states it; a field a record lacks, or holds
\* as null, is empty text
C15_Text(email_info, key) ==
    LET v == dict_get(email_info, key, PyNone)
    IN  IF v.tag = "str" THEN lower(v.val) ELSE <<>>

C15_Local(email_info) ==
    LET email == C15_Text(email_info, "value")
    IN  IF Contains(email, "@") THEN Split(email, "@")[1] ELSE email

C15_Documented(email_info) ==
    (IF \E k \in 1..Len(resume_specific_addresses) :
            startswith(C15_Local(email_info), resume_specific_addresses[k])
     THEN 20 ELSE 0)
    + 10 * Cardinality({k \in 1..Len(role_priority) :
               \/ InStr(role_priority[k], C15_Text(email_info, "position"))
               \/ InStr(role_priority[k], C15_Text(email_info, "value"))})
    + (IF /\ C15_Text(email_info, "first_name") # <<>>
          /\ C15_Text(email_info, "last_name") # <<>>
       THEN 5 ELSE 0)
    + (IF /\ "verification" \in DOMAIN email_info
          /\ email_info.verification # PyNone
          /\ email_info.verification.status = PyStr(<<"valid">>)
       THEN 3 ELSE 0)

\* the record of the highest documented score, the earliest of them
C14_Best(records) ==
    records[Min({i \in 1..Len(records) :
                    \A j \in 1..Len(records) :
                        C15_Documented(records[j]) <= C15_Documented(records[i])})]

\* C14: a company adds at most one contact; when its lookup returned records,
\* it adds the contact of the record with the highest score, the earliest of
\* those of equal score; without data or records, or with a failing lookup, it
\* adds none; and the call returns only after every company was looked up
C14_BestRecordPerCompany ==
    /\ Len(h_last) <= 1
    /\ (h_i > 0 /\ C14_Records # <<>>) =>
           /\ Len(h_last) = 1
           /\ h_last[1].email_address = dict_get(C14_Best(C14_Records), "value", PyNone)
    /\ (h_i > 0 /\ C14_Records = <<>>) => h_last = <<>>
    /\ h_pc = "returned" => h_i = Len(h_companies)

\* C15: email_score returns for every candidate record; its value is the
\* documented sum and lies between 0 and 78
C15_ScoreDefinedAndBounded ==
    \A i \in 1..Len(C14_Records) :
        LET score == email_score(C14_Records[i])
        IN  /\ score.exc = ""
            /\ score.val = C15_Documented(C14_Records[i])
            /\ score.val >= 0 /\ score.val <= 78

\* ---------------------------------------------------------------- C16
Stored == Range(get_emails_sent(emails_sent_history))

C17_Derived(addresses) ==
    {Split(e, "@")[2] : e \in {x \in addresses : Contains(x, "@")}}

C17_InRun ==
    pc \in {"while", "discover", "enrich", "filter", "after_loop"}

\* C17 as stated: while a run collects contacts, the domains it filters
\* against are exactly those of the stored addresses
C17_ForbiddenDomainsAreStoredDomains ==
    C17_InRun => user_domains_contacted = C17_Derived(Stored)

\* C17: in every run, the domains run_workflow hands to main are exactly
\* those of the addresses stored at that moment (earlier runs' included), and
\* the domains main filters against are those and the domains of the rows of
\* the legacy Excel file, nothing else
C17_ForbiddenDomainsAreStoredAndLegacyDomains ==
    C17_InRun =>
        /\ caller_domains = C17_Derived(Stored)
        /\ caller_domains \subseteq user_domains_contacted
        /\ user_domains_contacted \ caller_domains
               \subseteq C17_Derived(ExcelPool)
        /\ user_domains_contacted = C17_Derived(user_emails_sent)

\* a second run filters against the empty domain of an address the first run
\* stored
C17_Witness ==
    /\ task_id = 2 /\ pc = "filter"
    /\ <<>> \in caller_domains
    /\ Cardinality(caller_domains) >= 2

\* ---------------------------------------------------------------- C22
\* C22: filtering what the filter returned, against the same forbidden
\* domains, returns the same list: the same contacts in the same order
C22_FilterIdempotent ==
    f_pc = "returned" =>
        filter_contacts(f_out.val, {}, f_domains) = [exc |-> "", val |-> f_out.val]

\* of two contacts the filter dropped the first and kept the second
C22_Witness ==
    /\ f_pc = "returned" /\ Len(f_contacts) = 2 /\ f_domains = {acme}
    /\ f_out.val = <<f_contacts[2]>>

\* ---------------------------------------------------------------- C28
\* C28: with a positive delay the log of send_bulk_emails alternates: an
\* attempt, a delay, an attempt, ..., whatever the attempts' outcomes; the
\* log never holds a delay after the last message's attempt, so that a
\* finished batch of k messages has waited max(0, k - 1) times
C28_Sleeps == Cardinality({j \in 1..Len(send_log) : send_log[j].ev = "sleep"})

C28_DelayBetweenAttempts ==
    delay_seconds > 0 =>
        /\ \A j \in 1..Len(send_log) : (send_log[j].ev = "sleep") <=> (j % 2 = 0)
        /\ C28_Sleeps = IF s_i < Len(emails) THEN s_i
                        ELSE IF Len(emails) = 0 THEN 0 ELSE Len(emails) - 1
        /\ s_pc = "done" =>
               /\ send_log # <<>> => send_log[Len(send_log)].ev = "send"
               /\ C28_Sleeps = IF Len(emails) = 0 THEN 0 ELSE Len(emails) - 1

\* three messages with a delay, the first two attempts failed: two delays
C28_Witness ==
    /\ s_pc = "done" /\ delay_seconds > 0 /\ Len(emails) = 3
    /\ Len(send_log) = 5 /\ C28_Sleeps = 2
    /\ ~send_log[1].ok /\ ~send_log[3].ok /\ send_log[5].ok

\* ---------------------------------------------------------------- C23
C23_Cleaned ==
    FindEmailWorkFlowV2_main(contacts, user_emails_sent \cup session_emails,
                             user_domains_contacted \cup session_domains)

C23_Need == num_emails - Len(all_unique_contacts)

\* C23: the iteration that filters a batch appends the first admitted
\* contacts of the batch up to the number still needed and no more; when that
\* brings the count to num_emails the loop is left in that same step; and
\* with num_emails contacts collected no discovery or enrichment call follows
C23_StopsAtN ==
    [][/\ (pc = "filter" /\ C23_Cleaned.exc = "") =>
              /\ all_unique_contacts' =
                     all_unique_contacts \o
                     SubSeq(C23_Cleaned.val, 1,
                            IF Len(C23_Cleaned.val) < C23_Need
                            THEN Len(C23_Cleaned.val) ELSE C23_Need)
              /\ Len(all_unique_contacts') >= num_emails => pc' = "after_loop"
       /\ Len(all_unique_contacts) >= num_emails =>
              \/ calls' = calls
              \/ calls'[Len(calls')] \in {"draft", "draft_raise", "send"}]_vars

\* one contact asked for, two attempts allowed: the first batch brought two
\* admissible contacts, one was collected and the loop is over
C23_Witness ==
    /\ num_emails = 1 /\ max_attempts = 2 /\ attempt = 1 /\ pc = "after_loop"
    /\ Len(contacts) = 2 /\ Len(all_unique_contacts) = 1
    /\ calls = <<"discover", "enrich">>
    /\ \A i \in 1..2 :
           /\ contacts[i].email_address.tag = "str"
           /\ Contains(AddressOf(contacts[i]), "@")
           /\ Split(AddressOf(contacts[i]), "@")[2] \notin user_domains_contacted

\* ---------------------------------------------------------------- C24
\* the domain of a collected contact, and the iteration that collected the
\* k-th contact: the first whose running total of gained reaches k
C24_Domain(c) == Split(AddressOf(c), "@")[2]

RECURSIVE C24_Sum(_, _)
C24_Sum(l, m) == IF m = 0 THEN 0 ELSE l[m] + C24_Sum(l, m - 1)

C24_IterationOf(k) ==
    CHOOSE m \in 1..Len(gained) :
        C24_Sum(gained, m) >= k /\ \A j \in 1..(m - 1) : C24_Sum(gained, j) < k

\* C24: no contact collected in one iteration of a run has the domain of a
\* contact collected in an earlier iteration of that run
C24_NoDomainOfEarlierIteration ==
    \A i, j \in 1..Len(all_unique_contacts) :
        (i < j /\ C24_IterationOf(i) < C24_IterationOf(j))
            => C24_Domain(all_unique_contacts[i]) # C24_Domain(all_unique_contacts[j])

\* ---------------------------------------------------------------- C25
C25_Delivered == {SendEvents[j].to : j \in {k \in 1..Len(SendEvents) : SendEvents[k].ok}}

\* C25: the emails_sent a run returns after sending, which the worker adds to
\* the stored history, are exactly the addresses a message was delivered to
C25_EmailsSentAreDelivered ==
    /\ (pc = "done" /\ Count(calls, "send") = 1) =>
           Range(final_results.emails_sent) = C25_Delivered
    /\ (pc = "finished" /\ Count(calls, "send") = 1) =>
           Stored \subseteq user_emails_sent \cup C25_Delivered

\* ---------------------------------------------------------------- C29
\* C29: no two contacts of the collected list, nor of the list handed to
\* drafting, have the same domain
C29_DistinctDomains ==
    /\ \A i, j \in 1..Len(all_unique_contacts) :
           i < j => C24_Domain(all_unique_contacts[i]) # C24_Domain(all_unique_contacts[j])
    /\ \A i, j \in 1..Len(final_contacts) :
           i < j => C24_Domain(final_contacts[i]) # C24_Domain(final_contacts[j])

\* ---------------------------------------------------------------- C21
\* the texts left of a response by removing an opening fence or none, and a
\* closing fence or none
C21_Unfenced(text) ==
    {SubSeq(strip(text), Len(o) + 1, Len(strip(text)) - Len(c)) :
        <<o, c>> \in {oc \in {<<>>, <<Fence>>, <<Fence, "json">>} \X {<<>>, <<Fence>>} :
                         /\ startswith(strip(text), oc[1])
                         /\ endswith(strip(text), oc[2])
                         /\ Len(oc[1]) + Len(oc[2]) <= Len(strip(text))}}

C21_Companies(v) ==
    /\ v.exc = "" /\ v.val.kind = "list"
    /\ \A i \in 1..Len(v.val.items) :
           /\ v.val.items[i].kind = "dict"
           /\ {"company_name", "domain"} \subseteq v.val.items[i].keys

\* C21: the call returns exactly when the response without its fences is a
\* JSON list of objects that each hold company_name and domain, and it then
\* returns that list; on every other response it raises
C21_FailsClosed ==
    /\ d_pc = "returned" =>
           \E mid \in C21_Unfenced(response_text) :
               /\ C21_Companies(json_loads(mid))
               /\ d_out.val = json_loads(mid).val.items
    /\ d_pc = "raised" =>
           \A mid \in C21_Unfenced(response_text) : ~C21_Companies(json_loads(mid))

\* a fenced list of one company is returned
C21_Witness ==
    /\ d_pc = "returned"
    /\ response_text = <<Fence, "json", " ", "[", "nd", "]", " ", Fence, " ">>
    /\ Len(d_out.val) = 1

\* ---------------------------------------------------------------- C26
C26_TimedOut == g_pc = "finished" /\ elapsed = max_wait_time

C26_GateCounts ==
    /\ polls <= max_wait_time /\ elapsed <= max_wait_time
    /\ g_pc = "polling" => polls = elapsed
    /\ g_pc = "verify" => polls = elapsed + 1
    /\ C26_TimedOut => polls = max_wait_time /\ messages_sent = <<>>
    /\ messages_sent # <<>> => polls = elapsed + 1

C26_GateStep ==
    /\ (g_pc = "polling" /\ polls' # polls) =>
           /\ polls' = polls + 1
           /\ IF 1 \in DOMAIN handshake_login_confirmed /\ handshake_login_confirmed[1]
              THEN g_pc' = "verify" /\ elapsed' = elapsed
              ELSE g_pc' = "polling" /\ elapsed' = elapsed + 1
    /\ (g_pc = "polling" /\ g_pc' = "finished") => elapsed = max_wait_time
    /\ (1 \in DOMAIN handshake_login_confirmed /\ 1 \in DOMAIN handshake_login_confirmed'
           /\ ~handshake_login_confirmed[1] /\ handshake_login_confirmed'[1])
          => UNCHANGED <<g_pc, elapsed, polls>>

\* C26: the gate asks for the task's flag once per second waited, at most
\* max_wait_time times; the poll that sees the flag set goes on to the login
\* verification, a poll that does not waits a second; only a confirmation
\* request sets the flag; after max_wait_time polls without it the login has
\* failed and the campaign ends without a DM; and the gate is always left
C26_GateNeverBlocks ==
    /\ []C26_GateCounts
    /\ [][C26_GateStep]_vars
    /\ (g_pc = "polling") ~> (g_pc # "polling")

\* the 300th poll has not seen the flag: the campaign is over without a DM,
\* although another task's login was confirmed
C26_Witness ==
    /\ C26_TimedOut /\ polls = max_wait_time /\ messages_sent = <<>>
    /\ 2 \in DOMAIN handshake_login_confirmed /\ handshake_login_confirmed[2]

\* ---------------------------------------------------------------- C27
\* C27: no DM of a campaign goes to a company of the DM history the worker
\* read from the user's row
C27_NoDMToContactedCompany ==
    g_pc = "dms" =>
        \A i \in 1..Len(messages_sent) : messages_sent[i] \notin user_companies_contacted

\* ---------------------------------------------------------------- C30
\* C30: when two runs of one user overlap, no address a run recorded is lost
\* from the stored history when the other run commits.  Every address of a
\* run that has committed is in emails_sent_history, whatever the other run
\* has done since
C30_NoAddressLost ==
    \A w \in Workers :
        w_pc[w] = "finished" => Range(w_emails_sent[w]) \subseteq Stored

====
